---- MODULE Spec2Model ----
(***************************************************************************)
(* Model of chat_forwarder.py: the config store (load_config/save_config   *)
(* over config.json), the startup routine main() with its interactive      *)
(* prompt, and the /webhook forwarding handler served by one event loop.   *)
(*                                                                         *)
(* Text is a sequence of one-character strings.  Characters outside        *)
(* printable ASCII, and the backquote, are written "U+XXXX".               *)
(***************************************************************************)
EXTENDS Integers, Sequences, FiniteSets, TLC

VARIABLES
    file,         \* config.json on disk: [st, text]
    pc,           \* position of main() / of the config-store driver
    webhook_url,  \* main()'s local variable webhook_url
    ret,          \* outcome of the last load_config() call made outside the handler
    arg,          \* argument of the last save_config() call
    console,      \* the console dialogue of main(), in order: [k, text]
    server,       \* state of the uvicorn.run(app, ...) call
    loop,         \* slot of the request the event loop is running (0 = idle)
    reqs,         \* the inbound /webhook requests being served, by slot
    sent          \* the request answered last, with its response

vars == <<file, pc, webhook_url, ret, arg, console, server, loop, reqs, sent>>

----------------------------------------------------------------------------
(* Text helpers                                                            *)

BackQuote == "U+0060"

RECURSIVE Concat(_)
Concat(ss) == IF ss = <<>> THEN <<>> ELSE Head(ss) \o Concat(Tail(ss))

CONFIG_KEY ==
    <<"d","i","s","c","o","r","d","_","w","e","b","h","o","o","k","_","u","r","l">>

WEBHOOK_PREFIX ==
    <<"h","t","t","p","s",":","/","/","d","i","s","c","o","r","d",".","c","o","m",
      "/","a","p","i","/","w","e","b","h","o","o","k","s","/">>

\* str.startswith
StartsWith(s, p) == Len(s) >= Len(p) /\ SubSeq(s, 1, Len(p)) = p

\* str.strip(): whitespace removed from both ends
StripChars == {" ", "\t", "\n", "\r"}

RECURSIVE LStrip(_)
LStrip(s) == IF s # <<>> /\ Head(s) \in StripChars THEN LStrip(Tail(s)) ELSE s

RECURSIVE RStrip(_)
RStrip(s) ==
    IF s # <<>> /\ s[Len(s)] \in StripChars THEN RStrip(SubSeq(s, 1, Len(s) - 1)) ELSE s

Strip(s) == RStrip(LStrip(s))

----------------------------------------------------------------------------
(* JSON values: [t, s, m].  t is the type, s the text of a string or       *)
(* number, m the members <<[k, v], ...>> of an object or array.            *)

JStr(s)  == [t |-> "str",  s |-> s,    m |-> <<>>]
JNum(s)  == [t |-> "num",  s |-> s,    m |-> <<>>]
JLit(t)  == [t |-> t,      s |-> <<>>, m |-> <<>>]
JObj(m)  == [t |-> "obj",  s |-> <<>>, m |-> m]
JArr(m)  == [t |-> "arr",  s |-> <<>>, m |-> m]

\* json.dump with ensure_ascii=True: the escape of one character
Hex4 == [c \in {"U+0001", "U+007F", "U+00E9", "U+20AC"} |->
            CASE c = "U+0001" -> <<"0","0","0","1">>
              [] c = "U+007F" -> <<"0","0","7","f">>
              [] c = "U+00E9" -> <<"0","0","e","9">>
              [] c = "U+20AC" -> <<"2","0","a","c">>]

EscapeCharNoBackslash(c) ==
    CASE c = "\"" -> <<"\\", "\"">>
      [] c = "\n" -> <<"\\", "n">>
      [] c = "\r" -> <<"\\", "r">>
      [] c = "\t" -> <<"\\", "t">>
      [] c \in DOMAIN Hex4 -> <<"\\", "u">> \o Hex4[c]
      [] OTHER -> <<c>>

EscapeChar(c) ==
    CASE c = "\"" -> <<"\\", "\"">>
      [] c = "\\" -> <<"\\", "\\">>
      [] c = "\n" -> <<"\\", "n">>
      [] c = "\r" -> <<"\\", "r">>
      [] c = "\t" -> <<"\\", "t">>
      [] c \in DOMAIN Hex4 -> <<"\\", "u">> \o Hex4[c]
      [] OTHER -> <<c>>

RECURSIVE EscapeString(_)
EscapeString(s) == IF s = <<>> THEN <<>> ELSE EscapeChar(Head(s)) \o EscapeString(Tail(s))

\* json.dump({"discord_webhook_url": url}, f, indent=2)
DumpConfig(url) ==
    Concat(<< <<"{", "\n", " ", " ", "\"">>, CONFIG_KEY, <<"\"", ":", " ", "\"">>,
              EscapeString(url), <<"\"", "\n", "}">> >>)

----------------------------------------------------------------------------
(* json.load: a recursive-descent reading of the file's text.  A parse     *)
(* step yields [ok, v, next]: whether it succeeded, the value read and the *)
(* index after it.                                                         *)

JsonWs == {" ", "\t", "\n", "\r"}
Digits == {"0","1","2","3","4","5","6","7","8","9"}
HexDigits == Digits \cup {"a","b","c","d","e","f","A","B","C","D","E","F"}
ControlChars == {"\n", "\r", "\t", "U+0001", "U+0008", "U+000C"}

At(t, i) == IF i >= 1 /\ i <= Len(t) THEN t[i] ELSE "EOF"

ParseFail == [ok |-> FALSE, v |-> JLit("null"), next |-> 0]
ParseOk(v, next) == [ok |-> TRUE, v |-> v, next |-> next]

RECURSIVE SkipWs(_, _)
SkipWs(t, i) == IF At(t, i) \in JsonWs THEN SkipWs(t, i + 1) ELSE i

\* the character a \uXXXX escape stands for
UnHex(d) ==
    IF \E c \in DOMAIN Hex4 : Hex4[c] = d
    THEN CHOOSE c \in DOMAIN Hex4 : Hex4[c] = d
    ELSE "U+????"

RECURSIVE ParseString(_, _, _)
ParseString(t, i, acc) ==
    LET c == At(t, i)
        e == At(t, i + 1)
    IN  CASE c = "EOF" -> ParseFail
          [] c = "\"" -> ParseOk(JStr(acc), i + 1)
          [] c \in ControlChars -> ParseFail
          [] c = "\\" ->
               CASE e \in {"\"", "\\", "/"} -> ParseString(t, i + 2, Append(acc, e))
                 [] e = "n" -> ParseString(t, i + 2, Append(acc, "\n"))
                 [] e = "r" -> ParseString(t, i + 2, Append(acc, "\r"))
                 [] e = "t" -> ParseString(t, i + 2, Append(acc, "\t"))
                 [] e = "b" -> ParseString(t, i + 2, Append(acc, "U+0008"))
                 [] e = "f" -> ParseString(t, i + 2, Append(acc, "U+000C"))
                 [] e = "u" ->
                      IF \A k \in 2..5 : At(t, i + k) \in HexDigits
                      THEN ParseString(t, i + 6,
                                       Append(acc, UnHex(SubSeq(t, i + 2, i + 5))))
                      ELSE ParseFail
                 [] OTHER -> ParseFail
          [] OTHER -> ParseString(t, i + 1, Append(acc, c))

RECURSIVE ParseDigits(_, _)
ParseDigits(t, i) == IF At(t, i) \in Digits THEN ParseDigits(t, i + 1) ELSE i

\* integers only: -? (0 | [1-9][0-9]*)
ParseNumber(t, i) ==
    LET j == IF At(t, i) = "-" THEN i + 1 ELSE i
        k == IF At(t, j) = "0" THEN j + 1 ELSE ParseDigits(t, j)
    IN  IF k = j THEN ParseFail ELSE ParseOk(JNum(SubSeq(t, i, k - 1)), k)

ParseLiteral(t, i, word, type) ==
    IF i + Len(word) - 1 <= Len(t) /\ SubSeq(t, i, i + Len(word) - 1) = word
    THEN ParseOk(JLit(type), i + Len(word))
    ELSE ParseFail

RECURSIVE ParseValue(_, _)
RECURSIVE ParseMembers(_, _, _)
RECURSIVE ParseElements(_, _, _)

ParseValue(t, i) ==
    LET c == At(t, i)
        j == SkipWs(t, i + 1)
    IN  CASE c = "\"" -> ParseString(t, i + 1, <<>>)
          [] c = "{" -> IF At(t, j) = "}" THEN ParseOk(JObj(<<>>), j + 1)
                        ELSE ParseMembers(t, j, <<>>)
          [] c = "[" -> IF At(t, j) = "]" THEN ParseOk(JArr(<<>>), j + 1)
                        ELSE ParseElements(t, j, <<>>)
          [] c = "n" -> ParseLiteral(t, i, <<"n","u","l","l">>, "null")
          [] c = "t" -> ParseLiteral(t, i, <<"t","r","u","e">>, "bool")
          [] c = "f" -> ParseLiteral(t, i, <<"f","a","l","s","e">>, "bool")
          [] c \in Digits \cup {"-"} -> ParseNumber(t, i)
          [] OTHER -> ParseFail

ParseMembers(t, i, acc) ==
    IF At(t, i) # "\"" THEN ParseFail
    ELSE LET k == ParseString(t, i + 1, <<>>)
         IN  IF ~k.ok THEN ParseFail
             ELSE LET colon == SkipWs(t, k.next)
                  IN  IF At(t, colon) # ":" THEN ParseFail
                      ELSE LET v == ParseValue(t, SkipWs(t, colon + 1))
                           IN  IF ~v.ok THEN ParseFail
                               ELSE LET sep == SkipWs(t, v.next)
                                        mem == Append(acc, [k |-> k.v.s, v |-> v.v])
                                    IN  CASE At(t, sep) = "}" ->
                                               ParseOk(JObj(mem), sep + 1)
                                          [] At(t, sep) = "," ->
                                               ParseMembers(t, SkipWs(t, sep + 1), mem)
                                          [] OTHER -> ParseFail

ParseElements(t, i, acc) ==
    LET v == ParseValue(t, i)
    IN  IF ~v.ok THEN ParseFail
        ELSE LET sep == SkipWs(t, v.next)
                 mem == Append(acc, [k |-> <<>>, v |-> v.v])
             IN  CASE At(t, sep) = "]" -> ParseOk(JArr(mem), sep + 1)
                   [] At(t, sep) = "," -> ParseElements(t, SkipWs(t, sep + 1), mem)
                   [] OTHER -> ParseFail

\* json.load(f): the whole text is one value, whitespace around it allowed;
\* anything else is a JSONDecodeError (ok = FALSE)
JsonLoad(t) ==
    LET r == ParseValue(t, SkipWs(t, 1))
    IN  IF r.ok /\ SkipWs(t, r.next) = Len(t) + 1 THEN r ELSE ParseFail

\* dict.get(key, default): the last member with that key wins
RECURSIVE DictGet(_, _, _)
DictGet(m, key, default) ==
    IF m = <<>> THEN default
    ELSE IF m[Len(m)].k = key THEN m[Len(m)].v
    ELSE DictGet(SubSeq(m, 1, Len(m) - 1), key, default)

----------------------------------------------------------------------------
(* Config store.  file.st is "absent" (os.path.exists is false), "text"    *)
(* (a readable text file holding file.text), "binary" (bytes that do not   *)
(* decode as text) or "unreadable" (exists, and open() raises OSError).    *)
(* A call's outcome is [exc, val]: the exception that left the function    *)
(* ("none" when it returned) and the value returned.                       *)

Absent == [st |-> "absent", text |-> <<>>]
TextFile(t) == [st |-> "text", text |-> t]

Return(v) == [exc |-> "none", val |-> v]
Raise(e) == [exc |-> e, val |-> JLit("null")]

load_config(f) ==
    IF f.st = "absent" THEN Return(JStr(<<>>))
    ELSE IF f.st = "unreadable" THEN Raise("OSError")
    ELSE IF f.st = "binary" THEN Return(JStr(<<>>))
    ELSE LET data == JsonLoad(f.text)
         IN  IF ~data.ok THEN Return(JStr(<<>>))
             ELSE IF data.v.t # "obj" THEN Raise("AttributeError")
             ELSE Return(DictGet(data.v.m, CONFIG_KEY, JStr(<<>>)))

\* the file save_config(url) leaves behind, and whether open() let it write
CanWrite(f) == f.st # "unreadable"
save_config(f, url) == IF CanWrite(f) THEN TextFile(DumpConfig(url)) ELSE f

\* url.startswith(WEBHOOK_PREFIX) on whatever load_config returned:
\* only a str has the method
HasStartsWith(v) == v.t = "str"
IsWebhook(v) == HasStartsWith(v) /\ StartsWith(v.s, WEBHOOK_PREFIX)

----------------------------------------------------------------------------
(* Inputs                                                                  *)

MaxSuffixLen == 2      \* longest URL tail given to save_config
MaxPrompts == 2        \* most lines the operator types at the URL prompt
MaxPending == 2        \* most requests inside the server at one time

SeqsUpTo(A, n) == UNION {[1..k -> A] : k \in 0..n}

UrlChars == {"a", "/", "\"", "\\", "\n", " ", "U+00E9"}

\* every string with the webhook prefix and a tail of at most MaxSuffixLen
PrefixedUrls == {WEBHOOK_PREFIX \o t : t \in SeqsUpTo(UrlChars, MaxSuffixLen)}

Url1 == WEBHOOK_PREFIX \o <<"1", "/", "a">>
Url2 == WEBHOOK_PREFIX \o <<"2", "/", "b">>

Quoted(t) == <<"\"">> \o t \o <<"\"">>
ObjectText(key, valueText) == <<"{">> \o Quoted(key) \o <<":", " ">> \o valueText \o <<"}">>

\* contents config.json can have: written by save_config, or by anyone else
ConfigFiles ==
    { Absent,
      [st |-> "unreadable", text |-> <<>>],
      [st |-> "binary", text |-> <<>>],
      TextFile(<<>>),
      TextFile(<<"{">>),
      TextFile(<<"[", "]">>),
      TextFile(<<"n", "u", "l", "l">>),
      TextFile(<<"{", "}">>),
      TextFile(ObjectText(<<"u", "r", "l">>, Quoted(Url1))),
      TextFile(ObjectText(CONFIG_KEY, <<"1", "2", "3">>)),
      TextFile(ObjectText(CONFIG_KEY, <<"n", "u", "l", "l">>)),
      TextFile(ObjectText(CONFIG_KEY, Quoted(<<"n", "o", "t", "a", "u", "r", "l">>))),
      TextFile(ObjectText(CONFIG_KEY, Quoted(Url1))),
      TextFile(DumpConfig(Url1)),
      TextFile(DumpConfig(Url2)) }

\* the contents config.json takes while the server runs
ServeFiles ==
    { Absent,
      [st |-> "unreadable", text |-> <<>>],
      TextFile(<<"[", "]">>),
      TextFile(ObjectText(CONFIG_KEY, <<"1", "2", "3">>)),
      TextFile(ObjectText(CONFIG_KEY, Quoted(<<"n", "o", "t", "a", "u", "r", "l">>))),
      TextFile(DumpConfig(Url1)),
      TextFile(DumpConfig(Url2)) }

NoValue == JLit("null")

InitCommon ==
    /\ webhook_url = NoValue
    /\ ret = Return(NoValue)
    /\ arg = <<>>
    /\ console = <<>>
    /\ server = "not_started"
    /\ loop = 0
    /\ reqs = [i \in 1..MaxPending |-> [st |-> "free"]]
    /\ sent = [st |-> "free"]

----------------------------------------------------------------------------
(* The config store driven directly: one load_config(), or one             *)
(* save_config(url) followed at once by load_config().                     *)

InitConfig ==
    /\ file \in ConfigFiles
    /\ pc = "cfg_idle"
    /\ InitCommon

CfgLoad ==
    /\ pc = "cfg_idle"
    /\ ret' = load_config(file)
    /\ pc' = "cfg_loaded"
    /\ UNCHANGED <<file, webhook_url, arg, console, server, loop, reqs, sent>>

CfgSave(url) ==
    /\ pc = "cfg_idle"
    /\ arg' = url
    /\ file' = save_config(file, url)
    /\ pc' = IF CanWrite(file) THEN "cfg_saved" ELSE "cfg_save_raised"
    /\ UNCHANGED <<webhook_url, ret, console, server, loop, reqs, sent>>

CfgLoadAfterSave ==
    /\ pc = "cfg_saved"
    /\ ret' = load_config(file)
    /\ pc' = "cfg_reloaded"
    /\ UNCHANGED <<file, webhook_url, arg, console, server, loop, reqs, sent>>

NextConfig ==
    \/ CfgLoad
    \/ \E url \in PrefixedUrls : CfgSave(url)
    \/ CfgLoadAfterSave

SpecConfig == InitConfig /\ [][NextConfig]_vars

----------------------------------------------------------------------------
(* main(): startup, the prompt loop, the server run and the exit prompt.   *)
(* The console is interactive: every input() call gets a line.             *)

Say(k) == [k |-> k, text |-> <<>>]
Typed(k, line) == [k |-> k, text |-> line]

\* lines the operator may type at "Enter your Discord webhook URL: "
OperatorLines ==
    { <<>>,
      <<"n", "o", "t", "a", "u", "r", "l">>,
      <<" ">> \o Url1 \o <<" ", "\n">>,
      Url2,
      <<"x">> \o Url1 }

InitMain ==
    /\ file \in ConfigFiles
    /\ pc = "start"
    /\ InitCommon

\* the test of prompt_for_webhook's loop
PromptAcceptsAny(url) == url # <<>>
PromptAccepts(url) == StartsWith(url, WEBHOOK_PREFIX)

\* webhook_url = load_config(); if not webhook_url.startswith(WEBHOOK_PREFIX): ...
\* An exception here is outside the try block and ends main() with a traceback.
MainLoadConfig ==
    /\ pc = "start"
    /\ ret' = load_config(file)
    /\ IF ret'.exc # "none" \/ ~HasStartsWith(ret'.val)
       THEN /\ pc' = "crashed"
            /\ UNCHANGED <<webhook_url, console>>
       ELSE /\ webhook_url' = ret'.val
            /\ IF IsWebhook(ret'.val)
               THEN /\ pc' = "starting"
                    /\ UNCHANGED console
               ELSE /\ pc' = "prompt"
                    /\ console' = Append(console, Say("no_valid_url"))
    /\ UNCHANGED <<file, arg, server, loop, reqs, sent>>

AskedUrl == Cardinality({i \in DOMAIN console : console[i].k = "ask_url"})

\* one turn of the while True loop of prompt_for_webhook
PromptInput(line) ==
    /\ pc = "prompt"
    /\ AskedUrl < MaxPrompts
    /\ LET url == Strip(line)
       IN  IF PromptAccepts(url)
           THEN /\ arg' = url
                /\ file' = save_config(file, url)
                /\ console' = console \o <<Typed("ask_url", line), Say("saved")>>
                /\ webhook_url' = JStr(url)
                /\ pc' = "starting"
           ELSE /\ console' = console \o <<Typed("ask_url", line), Say("invalid_url")>>
                /\ UNCHANGED <<arg, file, webhook_url, pc>>
    /\ UNCHANGED <<ret, server, loop, reqs, sent>>

\* print "Starting chat forwarder..." and enter uvicorn.run inside the try block:
\* the listener binds and serves, or the bind fails with OSError
StartServer ==
    /\ pc = "starting"
    /\ console' = Append(console, Say("starting"))
    /\ \/ server' = "running" /\ pc' = "serving"
       \/ server' = "bind_failed" /\ pc' = "except_OSError"
    /\ UNCHANGED <<file, webhook_url, ret, arg, loop, reqs, sent>>

\* where control goes when uvicorn.run is left: "return" (shutdown), or an
\* exception that "except OSError" does not catch.  The finally clause runs
\* in every case.
AfterRunSkipsFinally(how) == IF how = "return" THEN "finally" ELSE "exited"
AfterRun(how) == "finally"

ServerLeaves(how) ==
    /\ pc = "serving"
    /\ loop = 0
    /\ server' = IF how = "return" THEN "stopped" ELSE "raised"
    /\ pc' = AfterRun(how)
    /\ UNCHANGED <<file, webhook_url, ret, arg, console, loop, reqs, sent>>

\* except OSError as e: print ERROR
ReportError ==
    /\ pc = "except_OSError"
    /\ console' = Append(console, Say("error"))
    /\ pc' = "finally"
    /\ UNCHANGED <<file, webhook_url, ret, arg, server, loop, reqs, sent>>

\* finally: input("Press Enter to exit...") -- the prompt is shown
ExitPrompt ==
    /\ pc = "finally"
    /\ console' = Append(console, Say("ask_exit"))
    /\ pc' = "await_enter"
    /\ UNCHANGED <<file, webhook_url, ret, arg, server, loop, reqs, sent>>

\* ... and the operator presses Enter; main() is over
EnterPressed ==
    /\ pc = "await_enter"
    /\ console' = Append(console, Say("enter"))
    /\ pc' = "exited"
    /\ UNCHANGED <<file, webhook_url, ret, arg, server, loop, reqs, sent>>

NextMain ==
    \/ MainLoadConfig
    \/ \E line \in OperatorLines : PromptInput(line)
    \/ StartServer
    \/ \E how \in {"return", "SystemExit"} : ServerLeaves(how)
    \/ ReportError
    \/ ExitPrompt
    \/ EnterPressed

SpecMain == InitMain /\ [][NextMain]_vars

----------------------------------------------------------------------------
(* The /webhook handler.  forwarder is a coroutine with no await in it, so *)
(* the event loop runs one call of it from its first line to its return;   *)
(* requests.post is a blocking call made on the event loop's thread.       *)

\* the query parameters of the inbound requests
Queries ==
    { [sender |-> <<"A", "l">>, message |-> <<"H", "i">>],
      [sender |-> <<>>,         message |-> <<BackQuote, "*">>] }

\* local times at which a request may be handled
Times == { [h |-> 9, m |-> 5], [h |-> 14, m |-> 7] }

\* what the outbound call can end in: a response with a status code, or an
\* exception of the requests library
StatusCodes == {101, 200, 299, 304, 404, 503}
Outcomes ==
    {[exc |-> "none", code |-> c] : c \in StatusCodes}
    \cup {[exc |-> e, code |-> 0] : e \in {"ConnectionError", "Timeout"}}

DigitChar(d) == <<"0","1","2","3","4","5","6","7","8","9">>[d + 1]
TwoDigits(n) == <<DigitChar(n \div 10), DigitChar(n % 10)>>

\* datetime.now().strftime("%H:%M")
Strftime(now) == TwoDigits(now.h) \o <<":">> \o TwoDigits(now.m)

\* the f-string: timestamp, space, [**sender**], colon, space, and the
\* message between two backquotes
Content(timestamp, sender, message) ==
    Concat(<< timestamp, <<" ", "[", "*", "*">>, sender,
              <<"*", "*", "]", ":", " ", BackQuote>>, message, <<BackQuote>> >>)

\* the requests.post calls one handler run makes
Post(url, content) == [url |-> url, json |-> [content |-> content]]
OutboundCallsRetry(url, content) == <<Post(url, content), Post(url, content)>>
OutboundCalls(url, content) == <<Post(url, content)>>

\* resp.raise_for_status(): HTTPError for 4xx and 5xx, nothing otherwise
RaiseForStatus(code) ==
    IF 400 <= code /\ code < 500 THEN "HTTPError: Client Error"
    ELSE IF 500 <= code /\ code < 600 THEN "HTTPError: Server Error"
    ELSE "none"

\* the exception, if any, that the try block catches
Caught(outcome) == IF outcome.exc # "none" THEN outcome.exc ELSE RaiseForStatus(outcome.code)

NotConfigured == "Discord webhook not configured correctly."

\* the handler's return value after the outbound call; str(e) is the
\* exception's message
ResultAfterPost(outcome) ==
    IF Caught(outcome) # "none"
    THEN [status |-> "error", detail |-> Caught(outcome)]
    ELSE [status |-> "forwarded"]

\* url = load_config(), first line of the handler
HandlerConfigCached == Return(webhook_url)
HandlerConfig == load_config(file)

InitServe ==
    /\ file \in ServeFiles
    /\ pc = "serving"
    /\ webhook_url = JStr(Url1)
    /\ ret = Return(webhook_url)
    /\ arg = <<>>
    /\ console = <<Say("starting")>>
    /\ server = "running"
    /\ loop = 0
    /\ reqs = [i \in 1..MaxPending |-> [st |-> "free"]]
    /\ sent = [st |-> "free"]

FreeSlots == {i \in DOMAIN reqs : reqs[i].st = "free"}

\* a GET /webhook?sender=..&message=.. reaches the server
Arrive(q) ==
    /\ server = "running"
    /\ FreeSlots # {}
    /\ LET i == CHOOSE j \in FreeSlots : \A k \in FreeSlots : j <= k
       IN  reqs' = [reqs EXCEPT ![i] =
                       [st |-> "pending", sender |-> q.sender, message |-> q.message]]
    /\ UNCHANGED <<file, pc, webhook_url, ret, arg, console, server, loop, sent>>

\* the event loop can take up a waiting request only when it is idle
CanHandle(i) == server = "running" /\ loop = 0 /\ reqs[i].st = "pending"

\* the response the serving layer sends: the returned dict as JSON under
\* 200, or 500 when the handler raised
Answered(r, seen, url, calls, exc, body) ==
    [st |-> "done", sender |-> r.sender, message |-> r.message, seen |-> seen,
     url |-> url, calls |-> calls, exc |-> exc,
     http |-> IF exc = "none" THEN 200 ELSE 500, body |-> body]

\* forwarder runs from its first line up to the return (config not valid),
\* up to an exception, or into the blocking requests.post
HandlerBegin(i, now) ==
    /\ CanHandle(i)
    /\ LET cfg == HandlerConfig
           r == reqs[i]
       IN  IF cfg.exc # "none" \/ ~HasStartsWith(cfg.val)
           THEN /\ sent' = Answered(r, file, cfg.val, <<>>,
                                    IF cfg.exc # "none" THEN cfg.exc ELSE "AttributeError",
                                    <<>>)
                /\ reqs' = [reqs EXCEPT ![i] = [st |-> "free"]]
                /\ UNCHANGED loop
           ELSE IF ~IsWebhook(cfg.val)
           THEN /\ sent' = Answered(r, file, cfg.val, <<>>, "none",
                                    [status |-> "error", detail |-> NotConfigured])
                /\ reqs' = [reqs EXCEPT ![i] = [st |-> "free"]]
                /\ UNCHANGED loop
           ELSE /\ reqs' = [reqs EXCEPT ![i] =
                       [st |-> "posting", sender |-> r.sender, message |-> r.message,
                        now |-> now, seen |-> file, url |-> cfg.val,
                        calls |-> OutboundCalls(cfg.val.s,
                                     Content(Strftime(now), r.sender, r.message))]]
                /\ loop' = i
                /\ UNCHANGED sent
    /\ UNCHANGED <<file, pc, webhook_url, ret, arg, console, server>>

\* the outbound call ends; the handler returns and the event loop is free
PostCompletes(i, outcome) ==
    /\ server = "running"
    /\ loop = i
    /\ reqs[i].st = "posting"
    /\ sent' = [Answered(reqs[i], reqs[i].seen, reqs[i].url, reqs[i].calls, "none",
                         ResultAfterPost(outcome))
                EXCEPT !.st = "posted"]
               @@ [now |-> reqs[i].now, outcome |-> outcome]
    /\ reqs' = [reqs EXCEPT ![i] = [st |-> "free"]]
    /\ loop' = 0
    /\ UNCHANGED <<file, pc, webhook_url, ret, arg, console, server>>

\* config.json is changed from outside the process while it serves
EnvWrite(f) ==
    /\ server = "running"
    /\ f # file
    /\ file' = f
    /\ UNCHANGED <<pc, webhook_url, ret, arg, console, server, loop, reqs, sent>>

NextServe ==
    \/ \E q \in Queries : Arrive(q)
    \/ \E i \in 1..MaxPending, now \in Times : HandlerBegin(i, now)
    \/ \E i \in 1..MaxPending, outcome \in Outcomes : PostCompletes(i, outcome)
    \/ \E f \in ServeFiles : EnvWrite(f)

SpecServe == InitServe /\ [][NextServe]_vars

\* the whole program
Next == NextMain \/ NextServe
Spec == InitMain /\ [][Next]_vars

----------------------------------------------------------------------------
(* Properties of the config store, under SpecConfig                        *)

ParsedFile(f) == JsonLoad(f.text)
HasKey(m, key) == \E i \in DOMAIN m : m[i].k = key

\* the file holds a JSON object with the discord_webhook_url key
StoresUrl(f) ==
    /\ f.st = "text"
    /\ ParsedFile(f).ok
    /\ ParsedFile(f).v.t = "obj"
    /\ HasKey(ParsedFile(f).v.m, CONFIG_KEY)

\* C4: load_config() never raises; it returns the empty string when the file
\* is absent, unreadable, not JSON, JSON that is not an object, or an object
\* without the key, and the stored value otherwise.
C4_LoadNeverRaises ==
    pc = "cfg_loaded" =>
        /\ ret.exc = "none"
        /\ ~StoresUrl(file) => ret.val = JStr(<<>>)
        /\ StoresUrl(file) =>
               ret.val = DictGet(ParsedFile(file).v.m, CONFIG_KEY, JStr(<<>>))

\* C5: save_config(url) followed at once by load_config() returns exactly
\* url, for every url with the webhook prefix and every earlier config file.
C5_SaveLoadRoundTrip ==
    pc = "cfg_reloaded" => ret = Return(JStr(arg))

C5_Witness ==
    /\ pc = "cfg_reloaded"
    /\ StartsWith(arg, WEBHOOK_PREFIX)
    /\ arg[Len(arg)] = "\\"
    /\ \E i \in DOMAIN arg : arg[i] = "U+00E9"
    /\ ret = Return(JStr(arg))

----------------------------------------------------------------------------
(* Properties of the handler, under SpecServe.  sent is the request        *)
(* answered last: sent.seen is config.json as the handler read it,         *)
(* sent.calls its outbound calls, sent.http and sent.body the response.    *)

Handled == sent.st \in {"done", "posted"}
ReturnedError == sent.exc = "none" /\ sent.http = 200 /\ sent.body.status = "error"
Is2xx(code) == 200 <= code /\ code <= 299

\* C1: whenever load_config() returns a value that does not start with the
\* webhook prefix, the handler returns status "error" and makes no outbound
\* call.
C1_InvalidConfigIsError ==
    ( /\ Handled
      /\ load_config(sent.seen).exc = "none"
      /\ ~IsWebhook(load_config(sent.seen).val) )
    => ReturnedError /\ sent.calls = <<>>

\* the text the outbound body must carry: HH:MM, zero-padded, then
\* [**sender**], a colon, a space and the message between backquotes
PaddedNumber(n) ==
    IF n < 10 THEN <<"0", DigitChar(n)>>
    ELSE <<DigitChar(n \div 10), DigitChar(n % 10)>>
ExpectedContent(now, sender, message) ==
    PaddedNumber(now.h) \o <<":">> \o PaddedNumber(now.m) \o <<" ", "[", "*", "*">>
    \o sender \o <<"*", "*", "]", ":", " ">> \o <<BackQuote>> \o message \o <<BackQuote>>

OneCallTo(r, stored) ==
    r.calls = << [url |-> stored.s,
                  json |-> [content |-> ExpectedContent(r.now, r.sender, r.message)]] >>

\* C2: with a stored URL that passes the prefix check, one handler run makes
\* exactly one outbound POST, to the stored URL, with the formatted line as
\* its content, and returns exactly {"status": "forwarded"} when the
\* response status is 2xx.
C2_ForwardsOnce ==
    /\ \A i \in DOMAIN reqs :
           reqs[i].st = "posting" => OneCallTo(reqs[i], load_config(reqs[i].seen).val)
    /\ Handled =>
           LET stored == load_config(sent.seen).val
           IN  IsWebhook(stored) =>
                   /\ sent.st = "posted"
                   /\ OneCallTo(sent, stored)
                   /\ (sent.outcome.exc = "none" /\ Is2xx(sent.outcome.code)) =>
                          /\ sent.http = 200
                          /\ sent.body = [status |-> "forwarded"]

C2_Witness ==
    /\ sent.st = "posted"
    /\ sent.outcome = [exc |-> "none", code |-> 299]
    /\ sent.now = [h |-> 9, m |-> 5]
    /\ sent.sender = <<"A", "l">>
    /\ sent.calls[1].url = Url2
    /\ sent.body = [status |-> "forwarded"]

\* C3: when the outbound call returns a status that is not 2xx, or raises,
\* the handler returns status "error" with a non-empty detail, having made
\* exactly one outbound POST.
C3_Non2xxIsError ==
    ( /\ sent.st = "posted"
      /\ \/ sent.outcome.exc # "none"
         \/ ~Is2xx(sent.outcome.code) )
    => /\ ReturnedError
       /\ sent.body.detail # ""
       /\ Len(sent.calls) = 1

\* C7: every request-time failure -- config absent, malformed or not a
\* valid URL string; outbound delivery failure -- comes back as HTTP 200
\* with status "error" and a detail, and nothing raises out of the handler
\* or stops the server.
C7_FailuresAreJsonErrors ==
    ( /\ Handled
      /\ \/ load_config(sent.seen).exc # "none"
         \/ ~IsWebhook(load_config(sent.seen).val)
         \/ sent.st = "posted" /\ sent.outcome.exc # "none"
         \/ sent.st = "posted" /\ ~Is2xx(sent.outcome.code) )
    => /\ ReturnedError
       /\ "detail" \in DOMAIN sent.body
       /\ server = "running"

\* each request decided on, and posted to, what config.json held when that
\* request read it
ReadFresh(r) ==
    LET stored == load_config(r.seen)
    IN  /\ stored.exc = "none" => r.url = stored.val
        /\ (r.st \in {"posting", "posted"}) = IsWebhook(stored.val)
        /\ \A k \in DOMAIN r.calls : r.calls[k].url = stored.val.s

\* C9: the handler reads config.json on every request and keeps no copy:
\* each request's validity decision and target URL are those of the file as
\* that request read it, and no step in which a request is taken up or
\* answered writes the file.
C9_ReadsConfigEveryRequest ==
    /\ [](/\ \A i \in DOMAIN reqs : reqs[i].st = "posting" => ReadFresh(reqs[i])
          /\ Handled => ReadFresh(sent))
    /\ [][file' = file \/ (reqs' = reqs /\ sent' = sent /\ loop' = loop)]_vars

\* a request forwarded to a URL that is neither the one main() loaded nor
\* the one an earlier request used, the file having changed again since
C9_Witness ==
    /\ sent.st = "posted"
    /\ sent.url = JStr(Url2)
    /\ webhook_url = JStr(Url1)
    /\ \E i \in DOMAIN reqs : reqs[i].st = "posting" /\ reqs[i].url = JStr(Url1)
    /\ file = Absent

\* C10: while one request waits for its outbound call, any other request
\* that has arrived can be handled.
C10_OthersNotBlocked ==
    \A i, j \in DOMAIN reqs :
        (reqs[i].st = "posting" /\ reqs[j].st = "pending")
            => ENABLED (\E now \in Times : HandlerBegin(j, now))

----------------------------------------------------------------------------
(* Properties of main(), under SpecMain                                    *)

ListenerStarted == server # "not_started"
HoldsWebhook(f) == load_config(f).exc = "none" /\ IsWebhook(load_config(f).val)

UrlAsked(i) == i \in DOMAIN console /\ console[i].k = "ask_url"
Acceptable(line) == StartsWith(Strip(line), WEBHOOK_PREFIX)
FirstAccepted(i) ==
    /\ UrlAsked(i)
    /\ Acceptable(console[i].text)
    /\ \A j \in 1..(i - 1) : UrlAsked(j) => ~Acceptable(console[j].text)

\* C6: the listener is started only while config.json holds a URL with the
\* webhook prefix: a valid initial config goes straight to the listener
\* without a prompt; a config that loads as anything else leads to the
\* prompt, where every rejected line is followed by the prompt again, and
\* the first accepted line is in the file before the listener starts.
C6_ListenerNeedsValidConfig ==
    /\ ListenerStarted => HoldsWebhook(file)
    /\ (pc # "start" /\ ret.exc = "none" /\ IsWebhook(ret.val)) =>
           /\ \A i \in DOMAIN console : ~UrlAsked(i)
           /\ pc # "prompt"
    /\ (pc # "start" /\ ret.exc = "none" /\ HasStartsWith(ret.val) /\ ~IsWebhook(ret.val)) =>
           /\ console # <<>>
           /\ console[1].k = "no_valid_url"
           /\ ListenerStarted => \E i \in DOMAIN console : FirstAccepted(i)
    /\ \A i \in DOMAIN console :
           UrlAsked(i) =>
               /\ i < Len(console)
               /\ console[i + 1].k =
                      IF Acceptable(console[i].text) THEN "saved" ELSE "invalid_url"
               /\ ~Acceptable(console[i].text) =>
                      IF i + 1 = Len(console) THEN pc = "prompt" ELSE UrlAsked(i + 2)
    /\ \A i \in DOMAIN console :
           (ListenerStarted /\ FirstAccepted(i)) =>
               /\ load_config(file) = Return(JStr(Strip(console[i].text)))
               /\ \E j \in DOMAIN console : j > i /\ console[j].k = "starting"

\* absent config, "notaurl" rejected, then a padded valid line accepted,
\* saved without the padding, and the listener running
C6_Witness ==
    /\ server = "running"
    /\ ret = Return(JStr(<<>>))
    /\ Len(console) >= 5
    /\ console[2] = Typed("ask_url", <<"n", "o", "t", "a", "u", "r", "l">>)
    /\ console[3].k = "invalid_url"
    /\ console[4] = Typed("ask_url", <<" ">> \o Url1 \o <<" ", "\n">>)
    /\ file = TextFile(DumpConfig(Url1))

Terminated == pc \in {"exited", "crashed"}

\* C8: a bind failure is reported on the console, and main() ends after the
\* listener start was attempted only once the "Press Enter to exit..."
\* prompt has been shown and answered.
C8_ExitOnlyAfterAcknowledgment ==
    /\ (server = "bind_failed" /\ pc \in {"finally", "await_enter", "exited"}) =>
           \E i \in DOMAIN console :
               /\ console[i].k = "error"
               /\ \A j \in DOMAIN console : console[j].k = "ask_exit" => j > i
    /\ (ListenerStarted /\ Terminated) =>
           /\ pc = "exited"
           /\ Len(console) >= 2
           /\ console[Len(console) - 1].k = "ask_exit"
           /\ console[Len(console)].k = "enter"

C8_Witness ==
    /\ pc = "exited"
    /\ server = "bind_failed"
    /\ \E i \in DOMAIN console : console[i].k = "error"

====
